---- MODULE Spec2Model ----
(***************************************************************************)
(* A model of check_pam.py: one linear script that loads a configuration,  *)
(* checks for a live Azure CLI session, lists the users, fetches every     *)
(* user's groups and collects the members of the configured admin groups.  *)
(*                                                                         *)
(* Command strings, principal names and standard-error output are          *)
(* sequences of one-character strings, so that sanitize, startswith and    *)
(* find are computed as the code computes them.  Group names are only      *)
(* compared for equality and stay TLA+ strings.                            *)
(***************************************************************************)
EXTENDS Naturals, Integers, Sequences, FiniteSets

\* ------------------------------------------------------------------ bounds

\* Longest simulated directory (number of user records "az ad user list" returns).
MaxUsers == 4

\* Longest candidate command string handed to ex_az_command under SpecCommand.
MaxCmdLen == 4

\* The scan's iteration cap.  The source compares user_check_count with 10000
\* (line 192); the model keeps the comparison and scales the number so that a
\* directory of MaxUsers users can exceed it.
UserCheckCap == 2

\* The value of a name that has not been bound yet (count before line 153).
Unbound == -1

\* ------------------------------------------------------------- strings

AzProgram == <<"a", "z">>
AzLogin == <<"a", "z", " ", "l", "o", "g", "i", "n">>
SessionCmd ==
    <<"a", "z", " ", "a", "d", " ", "s", "i", "g", "n", "e", "d", "-", "i", "n",
      "-", "u", "s", "e", "r", " ", "s", "h", "o", "w">>
UserListCmd ==
    <<"a", "z", " ", "a", "d", " ", "u", "s", "e", "r", " ", "l", "i", "s", "t">>
GetMemberGroupsPrefix ==
    <<"a", "z", " ", "a", "d", " ", "u", "s", "e", "r", " ", "g", "e", "t", "-",
      "m", "e", "m", "b", "e", "r", "-", "g", "r", "o", "u", "p", "s", " ", "-",
      "-", "i", "d", " ">>
GetMemberGroupsCmd(name) == GetMemberGroupsPrefix \o name

\* replace_map, in the order the dictionary is written (and iterated).
replace_map ==
    << [from |-> ";",  to |-> <<"w", "a", "s", "S", "e", "m", "i", "c", "o", "l", "o", "n">>],
       [from |-> "'",  to |-> <<"w", "a", "s", "A", "p", "o", "s", "t", "r", "o", "p", "h", "e">>],
       [from |-> "\"", to |-> <<"w", "a", "s", "Q", "u", "o", "t", "e">>],
       [from |-> "$",  to |-> <<"w", "a", "s", "Q", "u", "e", "s", "t", "i", "o", "n">>],
       [from |-> "!",  to |-> <<"w", "a", "s", "P", "l", "i", "n", "g">>],
       [from |-> "&",  to |-> <<"w", "a", "s", "A", "m", "p", "e", "r", "s", "a", "n", "d">>] >>

\* str.startswith
startswith(s, prefix) ==
    /\ Len(s) >= Len(prefix)
    /\ SubSeq(s, 1, Len(prefix)) = prefix

\* bytes.find: the lowest 0-based index where sub occurs in s, or -1.
find(s, sub) ==
    LET hits == {i \in 0..(Len(s) - Len(sub)) : SubSeq(s, i + 1, i + Len(sub)) = sub}
    IN  IF hits = {} THEN -1
        ELSE CHOOSE i \in hits : \A j \in hits : i <= j

\* str.replace(old, new) for a one-character old: the string itself when old
\* does not occur, else every occurrence replaced, left to right.
RECURSIVE replace(_, _, _)
replace(s, old, new) ==
    IF \A i \in 1..Len(s) : s[i] # old THEN s
    ELSE LET first == CHOOSE i \in 1..Len(s) :
                          s[i] = old /\ \A j \in 1..(i - 1) : s[j] # old
         IN  SubSeq(s, 1, first - 1) \o new \o replace(SubSeq(s, first + 1, Len(s)), old, new)

\* str.replace(old, new, 1): only the first occurrence (used by a mutant).
replace_first(s, old, new) ==
    IF \A i \in 1..Len(s) : s[i] # old THEN s
    ELSE LET first == CHOOSE i \in 1..Len(s) :
                          s[i] = old /\ \A j \in 1..(i - 1) : s[j] # old
         IN  SubSeq(s, 1, first - 1) \o new \o SubSeq(s, first + 1, Len(s))

RECURSIVE sanitize_from(_, _)
sanitize_from(sanitized, k) ==
    IF k > Len(replace_map) THEN sanitized
    ELSE sanitize_from(replace(sanitized, replace_map[k].from, replace_map[k].to), k + 1)

RECURSIVE sanitize_first_from(_, _)
sanitize_first_from(sanitized, k) ==
    IF k > Len(replace_map) THEN sanitized
    ELSE sanitize_first_from(
             replace_first(sanitized, replace_map[k].from, replace_map[k].to), k + 1)

\* Mutant of sanitize: each character is replaced once, not everywhere.
sanitize_first_only(s) == sanitize_first_from(s, 1)

\* sanitize: for each key of replace_map in turn, replace all its occurrences.
sanitize(s) == sanitize_from(s, 1)

\* Mutant of ex_az_command: standard error is never inspected.
ex_az_command_ignores_stderr(cmd, std_err) ==
    LET to_execute == sanitize(cmd)
    IN  IF ~startswith(to_execute, AzProgram)
        THEN [exit |-> TRUE, popen |-> <<>>]
        ELSE [exit |-> FALSE, popen |-> <<to_execute>>]

\* ex_az_command(c), given the standard error the subprocess will write.
\* exit: the function called exit(); popen: the command lines handed to
\* subprocess.Popen (none or one).  The subprocess's standard output is
\* returned unchanged and is supplied by the caller of this operator.
ex_az_command(cmd, std_err) ==
    LET to_execute == sanitize(cmd)
    IN  IF ~startswith(to_execute, AzProgram)
        THEN [exit |-> TRUE, popen |-> <<>>]
        ELSE IF Len(std_err) > 0 /\ find(std_err, AzLogin) # -1
        THEN [exit |-> TRUE, popen |-> <<to_execute>>]
        ELSE [exit |-> FALSE, popen |-> <<to_execute>>]

\* ------------------------------------------------------ simulated inputs

\* Standard-error outputs of the CLI: nothing, a warning, the no-session text.
Stderrs ==
    { <<>>,
      <<"W", "A", "R", "N">>,
      <<"r", "u", "n", " ", "a", "z", " ", "l", "o", "g", "i", "n">> }

\* Parsed configuration files: with and without the admingroups key.
\* keys: the keys of the JSON object; admingroups: the value of that key when
\* it is present (config['admingroups'] raises KeyError when it is not).
ParsedConfigs ==
    { [keys |-> {"admingroups"}, admingroups |-> {"GroupA", "GroupB"}],
      [keys |-> {"admingroups"}, admingroups |-> {"GroupA"}],
      [keys |-> {"owner"},       admingroups |-> {}] }

HasAdminGroups(cfg) == "admingroups" \in cfg.keys

\* What "az ad user get-member-groups" answers for a user: output that does
\* not parse, or a list of groups given by their displayName.
Unparsable == [parses |-> FALSE, value |-> <<>>]
Parsed(v) == [parses |-> TRUE, value |-> v]

\* The simulated directory's accounts: principal name and group answer.
Accounts ==
    { [userPrincipalName |-> <<"A", "-", "t">>, groups |-> Parsed(<<"GroupA">>)],
      [userPrincipalName |-> <<"a", "l">>,      groups |-> Parsed(<<"GroupA", "GroupB">>)],
      [userPrincipalName |-> <<"c", ";">>,      groups |-> Parsed(<<"Other", "GroupA">>)],
      [userPrincipalName |-> <<"d", "i">>,      groups |-> Unparsable],
      [userPrincipalName |-> <<"e", "d">>,      groups |-> Parsed(<<>>)] }

Directories == UNION {[1..n -> Accounts] : n \in 0..MaxUsers}

\* Candidate command strings for ex_az_command.
CommandChars == {"a", "z", " ", ";", "'", "\"", "$", "!", "&"}
Candidates == UNION {[1..n -> CommandChars] : n \in 0..MaxCmdLen}

\* ------------------------------------------------------------------ state

VARIABLES
    pc,                \* position in the script
    args,              \* parsed command line: debug, report
    config_file,       \* the configuration file found on disk (environment)
    config,            \* config, as read_config returned it
    az_users,          \* what "az ad user list" wrote to standard output (environment)
    users,             \* users, the parsed user list
    count,             \* count, the number of users found
    idx,               \* position of the "for user in users" loop of line 166
    admin_groups,      \* admin_groups: group name -> list of principal names
    user_check_count,  \* user_check_count
    c,                 \* the argument of the latest ex_az_command call
    az_calls,          \* every command line handed to subprocess.Popen, in order
    session_std_err,   \* what the session check's subprocess wrote to standard error (environment)
    found_out,         \* the number printed by line 161, or Unbound
    checked_out,       \* the number printed by line 196, or Unbound
    printed_groups,    \* the mapping printed by lines 197-200 (none or one)
    report_out         \* the lines report mode printed

vars == <<pc, args, config_file, config, az_users, users, count, idx, admin_groups,
          user_check_count, c, az_calls, session_std_err, found_out, checked_out,
          printed_groups, report_out>>

EmptyMapping == [g \in {} |-> <<>>]

Init ==
    /\ pc = "get_args"
    /\ args = [debug |-> FALSE, report |-> FALSE]
    /\ config_file = "unread"
    /\ config = [keys |-> {}, admingroups |-> {}]
    /\ az_users = [parses |-> FALSE, value |-> <<>>]
    /\ users = <<>>
    /\ count = Unbound
    /\ idx = 1
    /\ admin_groups = EmptyMapping
    /\ user_check_count = 0
    /\ c = <<>>
    /\ az_calls = <<>>
    /\ session_std_err = <<>>
    /\ found_out = Unbound
    /\ checked_out = Unbound
    /\ printed_groups = <<>>
    /\ report_out = <<>>

\* The command lines a call handed to subprocess.Popen, appended to the log.
Started(r) == az_calls \o r.popen

\* ------------------------------------------------------- lines 125-140

\* get_args (lines 132-138): parse the flags; --report goes to report_last_check.
GetArgs ==
    /\ pc = "get_args"
    /\ \E debug \in BOOLEAN, report \in BOOLEAN :
         /\ args' = [debug |-> debug, report |-> report]
         /\ pc' = IF report THEN "report" ELSE "read_config"
    /\ UNCHANGED <<config_file, config, az_users, users, count, idx, admin_groups,
                   user_check_count, c, az_calls, found_out, checked_out,
                   printed_groups, report_out, session_std_err>>

\* Line 137: report_last_check is defined nowhere, so the call raises NameError
\* and the interpreter stops with a traceback; nothing is reported.
ReportLastCheck ==
    /\ pc = "report"
    /\ pc' = "crashed"
    /\ UNCHANGED <<args, config_file, config, az_users, users, count, idx,
                   admin_groups, user_check_count, c, az_calls, found_out,
                   checked_out, printed_groups, report_out, session_std_err>>

\* read_config, lines 54-56: no file, exit().
ReadConfigMissing ==
    /\ pc = "read_config"
    /\ config_file' = "missing"
    /\ pc' = "exited"
    /\ UNCHANGED <<args, config, az_users, users, count, idx, admin_groups,
                   user_check_count, c, az_calls, found_out, checked_out,
                   printed_groups, report_out, session_std_err>>

\* read_config, lines 57-59: the file is not JSON, exit().
ReadConfigNotJson ==
    /\ pc = "read_config"
    /\ config_file' = "not_json"
    /\ pc' = "exited"
    /\ UNCHANGED <<args, config, az_users, users, count, idx, admin_groups,
                   user_check_count, c, az_calls, found_out, checked_out,
                   printed_groups, report_out, session_std_err>>

\* read_config, lines 52-53 and 61-64: the file parses.  config['admingroups']
\* is read only under --debug (line 62), where a missing key raises KeyError;
\* otherwise the parsed object is returned as it is.
ReadConfigJson ==
    /\ pc = "read_config"
    /\ \E cfg \in ParsedConfigs :
         /\ config_file' = "json"
         /\ IF args.debug /\ ~HasAdminGroups(cfg)
            THEN pc' = "crashed" /\ UNCHANGED config
            ELSE pc' = "session" /\ config' = cfg
    /\ UNCHANGED <<args, az_users, users, count, idx, admin_groups,
                   user_check_count, c, az_calls, found_out, checked_out,
                   printed_groups, report_out, session_std_err>>

\* ------------------------------------------------------- lines 142-161

\* Lines 144-146: the session check.
SessionCheck ==
    /\ pc = "session"
    /\ \E std_err \in Stderrs :
         LET r == ex_az_command(SessionCmd, std_err)
         IN  /\ c' = SessionCmd
             /\ az_calls' = Started(r)
             /\ session_std_err' = std_err
             /\ pc' = IF r.exit THEN "exited" ELSE "list_users"
    /\ UNCHANGED <<args, config_file, config, az_users, users, count, idx,
                   admin_groups, user_check_count, found_out, checked_out,
                   printed_groups, report_out>>

\* Lines 150-159: list the users and count them.  When json.loads raises,
\* the handler prints and neither users nor count has been bound.
ListUsers ==
    /\ pc = "list_users"
    /\ \E std_err \in Stderrs,
          std_out \in {Unparsable} \cup {Parsed(d) : d \in Directories} :
         LET r == ex_az_command(UserListCmd, std_err)
         IN  /\ c' = UserListCmd
             /\ az_calls' = Started(r)
             /\ IF r.exit
                THEN pc' = "exited" /\ UNCHANGED <<az_users, users, count>>
                ELSE /\ az_users' = std_out
                     /\ pc' = "print_found"
                     /\ IF std_out.parses
                        THEN /\ users' = [i \in 1..Len(std_out.value) |->
                                            std_out.value[i].userPrincipalName]
                             /\ count' = Len(std_out.value)
                        ELSE UNCHANGED <<users, count>>
    /\ UNCHANGED <<args, config_file, config, idx, admin_groups, user_check_count,
                   found_out, checked_out, printed_groups, report_out, session_std_err>>

\* Lines 161-165: print count (NameError when it was never bound), then
\* start the scan with an empty mapping.
PrintFound ==
    /\ pc = "print_found"
    /\ IF count = Unbound
       THEN pc' = "crashed" /\ UNCHANGED <<found_out, admin_groups, user_check_count, idx>>
       ELSE /\ found_out' = count
            /\ admin_groups' = EmptyMapping
            /\ user_check_count' = 0
            /\ idx' = 1
            /\ pc' = "scan"
    /\ UNCHANGED <<args, config_file, config, az_users, users, count, c, az_calls,
                   checked_out, printed_groups, report_out, session_std_err>>

\* ------------------------------------------------------- lines 164-200

\* Mutant of is_platform_account: the filter of lines 171-172 is missing.
is_platform_account_never(name) == FALSE

\* Line 171: name.startswith("A").
is_platform_account(name) == startswith(name, <<"A">>)

\* Line 192: user_check_count > 10000, with the number scaled to UserCheckCap.
cap_exceeded(n) == n > UserCheckCap

\* Lines 188-190 for one group: create the list on first sight, then append.
record_member(mapping, group_name, name) ==
    [g \in DOMAIN mapping \cup {group_name} |->
        IF g = group_name
        THEN (IF g \in DOMAIN mapping THEN mapping[g] ELSE <<>>) \o <<name>>
        ELSE mapping[g]]

\* Mutant of collect_record: line 183's test is missing, every group is recorded.
RECURSIVE collect_record_unfiltered(_, _, _, _)
collect_record_unfiltered(record, name, mapping, admingroups) ==
    IF record = <<>> THEN mapping
    ELSE collect_record_unfiltered(Tail(record), name,
                                   record_member(mapping, Head(record), name),
                                   admingroups)

\* Mutant of collect_record: a group's list is replaced, not appended to.
RECURSIVE collect_record_overwrites(_, _, _, _)
collect_record_overwrites(record, name, mapping, admingroups) ==
    IF record = <<>> THEN mapping
    ELSE collect_record_overwrites(
             Tail(record), name,
             IF Head(record) \in admingroups
             THEN [g \in DOMAIN mapping \cup {Head(record)} |->
                      IF g = Head(record) THEN <<name>> ELSE mapping[g]]
             ELSE mapping,
             admingroups)

\* Lines 179-190: for each group of the record, in order, record the user
\* under the group when the group is one of config['admingroups'].
RECURSIVE collect_record(_, _, _, _)
collect_record(record, name, mapping, admingroups) ==
    IF record = <<>> THEN mapping
    ELSE collect_record(
             Tail(record), name,
             IF Head(record) \in admingroups
             THEN record_member(mapping, Head(record), name)
             ELSE mapping,
             admingroups)

AtUser == pc = "scan" /\ idx <= Len(users)

\* The group answer the directory gives for the user the loop is at.
GroupsOut == az_users.value[idx].groups

\* Lines 171-172: a platform account is passed over.
ScanSkipPlatform ==
    /\ AtUser
    /\ is_platform_account(users[idx])
    /\ idx' = idx + 1
    /\ UNCHANGED <<pc, args, config_file, config, az_users, users, count,
                   admin_groups, user_check_count, c, az_calls, found_out,
                   checked_out, printed_groups, report_out, session_std_err>>

\* Line 173, when ex_az_command calls exit() (no session).
ScanNoSession ==
    /\ AtUser
    /\ ~is_platform_account(users[idx])
    /\ \E std_err \in Stderrs :
         LET r == ex_az_command(GetMemberGroupsCmd(users[idx]), std_err)
         IN  /\ r.exit
             /\ c' = GetMemberGroupsCmd(users[idx])
             /\ az_calls' = Started(r)
             /\ pc' = "exited"
    /\ UNCHANGED <<args, config_file, config, az_users, users, count, idx,
                   admin_groups, user_check_count, found_out, checked_out,
                   printed_groups, report_out, session_std_err>>

\* Mutant of ScanParseFailure: the handler leaves the loop instead of
\* going on with the next user.
ScanParseFailure_breaks ==
    /\ AtUser
    /\ ~is_platform_account(users[idx])
    /\ ~GroupsOut.parses
    /\ \E std_err \in Stderrs :
         LET r == ex_az_command(GetMemberGroupsCmd(users[idx]), std_err)
         IN  /\ ~r.exit
             /\ c' = GetMemberGroupsCmd(users[idx])
             /\ az_calls' = Started(r)
    /\ idx' = idx + 1
    /\ pc' = "dump"
    /\ UNCHANGED <<args, config_file, config, az_users, users, count,
                   admin_groups, user_check_count, found_out, checked_out,
                   printed_groups, report_out, session_std_err>>

\* Lines 173-178: the group list does not parse; print and continue.
ScanParseFailure ==
    /\ AtUser
    /\ ~is_platform_account(users[idx])
    /\ ~GroupsOut.parses
    /\ \E std_err \in Stderrs :
         LET r == ex_az_command(GetMemberGroupsCmd(users[idx]), std_err)
         IN  /\ ~r.exit
             /\ c' = GetMemberGroupsCmd(users[idx])
             /\ az_calls' = Started(r)
    /\ idx' = idx + 1
    /\ UNCHANGED <<pc, args, config_file, config, az_users, users, count,
                   admin_groups, user_check_count, found_out, checked_out,
                   printed_groups, report_out, session_std_err>>

\* Lines 179-183 when config has no admingroups key: the first group of the
\* record makes config['admingroups'] raise KeyError.
ScanKeyError ==
    /\ AtUser
    /\ ~is_platform_account(users[idx])
    /\ GroupsOut.parses
    /\ GroupsOut.value # <<>>
    /\ ~HasAdminGroups(config)
    /\ \E std_err \in Stderrs :
         LET r == ex_az_command(GetMemberGroupsCmd(users[idx]), std_err)
         IN  /\ ~r.exit
             /\ c' = GetMemberGroupsCmd(users[idx])
             /\ az_calls' = Started(r)
    /\ pc' = "crashed"
    /\ UNCHANGED <<args, config_file, config, az_users, users, count, idx,
                   admin_groups, user_check_count, found_out, checked_out,
                   printed_groups, report_out, session_std_err>>

\* Lines 173-193: fetch the groups, record the admin ones, count the user,
\* and break once the counter has passed the cap.
ScanCollect ==
    /\ AtUser
    /\ ~is_platform_account(users[idx])
    /\ GroupsOut.parses
    /\ GroupsOut.value = <<>> \/ HasAdminGroups(config)
    /\ \E std_err \in Stderrs :
         LET r == ex_az_command(GetMemberGroupsCmd(users[idx]), std_err)
         IN  /\ ~r.exit
             /\ c' = GetMemberGroupsCmd(users[idx])
             /\ az_calls' = Started(r)
    /\ admin_groups' =
           collect_record(GroupsOut.value, users[idx], admin_groups, config.admingroups)
    /\ user_check_count' = user_check_count + 1
    /\ idx' = idx + 1
    /\ pc' = IF cap_exceeded(user_check_count') THEN "dump" ELSE "scan"
    /\ UNCHANGED <<args, config_file, config, az_users, users, count, found_out,
                   checked_out, printed_groups, report_out, session_std_err>>

\* Line 166, when the list is exhausted.
ScanEnd ==
    /\ pc = "scan"
    /\ idx > Len(users)
    /\ pc' = "dump"
    /\ UNCHANGED <<args, config_file, config, az_users, users, count, idx,
                   admin_groups, user_check_count, c, az_calls, found_out,
                   checked_out, printed_groups, report_out, session_std_err>>

\* Lines 196-200: print the counter and the mapping; the script ends.
Dump ==
    /\ pc = "dump"
    /\ checked_out' = user_check_count
    /\ printed_groups' = <<admin_groups>>
    /\ pc' = "done"
    /\ UNCHANGED <<args, config_file, config, az_users, users, count, idx,
                   admin_groups, user_check_count, c, az_calls, found_out,
                   report_out, session_std_err>>

Next ==
    \/ GetArgs
    \/ ReportLastCheck
    \/ ReadConfigMissing
    \/ ReadConfigNotJson
    \/ ReadConfigJson
    \/ SessionCheck
    \/ ListUsers
    \/ PrintFound
    \/ ScanSkipPlatform
    \/ ScanNoSession
    \/ ScanParseFailure
    \/ ScanKeyError
    \/ ScanCollect
    \/ ScanEnd
    \/ Dump

Spec == Init /\ [][Next]_vars

\* ------------------------------------------- ex_az_command on any string

\* ex_az_command is about to be called with a candidate command.
InitCommand ==
    /\ pc = "ex_az_command"
    /\ c \in Candidates
    /\ args = [debug |-> FALSE, report |-> FALSE]
    /\ config_file = "unread"
    /\ config = [keys |-> {}, admingroups |-> {}]
    /\ az_users = [parses |-> FALSE, value |-> <<>>]
    /\ users = <<>>
    /\ count = Unbound
    /\ idx = 1
    /\ admin_groups = EmptyMapping
    /\ user_check_count = 0
    /\ az_calls = <<>>
    /\ session_std_err = <<>>
    /\ found_out = Unbound
    /\ checked_out = Unbound
    /\ printed_groups = <<>>
    /\ report_out = <<>>

\* Lines 83-99: one call of ex_az_command(c).
ExAzCommand ==
    /\ pc = "ex_az_command"
    /\ \E std_err \in Stderrs :
         LET r == ex_az_command(c, std_err)
         IN  /\ az_calls' = Started(r)
             /\ pc' = IF r.exit THEN "exited" ELSE "returned"
    /\ UNCHANGED <<args, config_file, config, az_users, users, count, idx,
                   admin_groups, user_check_count, c, found_out, checked_out,
                   printed_groups, report_out, session_std_err>>

NextCommand == ExAzCommand

SpecCommand == InitCommand /\ [][NextCommand]_vars

\* ------------------------------------------------------------- properties

Range(seq) == {seq[i] : i \in DOMAIN seq}

MetaChars == {";", "'", "\"", "$", "!", "&"}

NoSession(std_err) ==
    \E i \in 1..(Len(std_err) - Len(AzLogin) + 1) :
        SubSeq(std_err, i, i + Len(AzLogin) - 1) = AzLogin

\* The directory the user-list call returned, and facts about its entries.
Directory == az_users.value
NameOf(i) == Directory[i].userPrincipalName
PlatformNamed(i) == Len(NameOf(i)) > 0 /\ NameOf(i)[1] = "A"
WellFormed(i) == Directory[i].groups.parses
GroupsOf(i) == IF WellFormed(i) THEN Range(Directory[i].groups.value) ELSE {}

\* A user the scan counts: not a platform account, with a group list that parses.
Counted(i) == ~PlatformNamed(i) /\ WellFormed(i)
CountedBefore(i) == Cardinality({j \in 1..(i - 1) : Counted(j)})

\* A user the scan collects: counted, and not beyond the break of line 193.
Collected(i) == Counted(i) /\ CountedBefore(i) <= UserCheckCap

FetchesIssued ==
    Cardinality({i \in DOMAIN az_calls : startswith(az_calls[i], GetMemberGroupsPrefix)})

Finished == pc = "done" /\ az_users.parses /\ HasAdminGroups(config)

\* C1 (as stated): when the run finishes on well-formed records, the mapping's
\* keys are exactly the configured admin groups some user of the directory
\* holds, and each key lists exactly the users who hold it.
C1_MappingExactForAllUsers ==
    (Finished /\ \A i \in DOMAIN Directory : WellFormed(i)) =>
        /\ DOMAIN admin_groups =
               {g \in config.admingroups : \E i \in DOMAIN Directory : g \in GroupsOf(i)}
        /\ \A g \in DOMAIN admin_groups :
               Range(admin_groups[g]) =
                   {NameOf(i) : i \in {j \in DOMAIN Directory : g \in GroupsOf(j)}}

\* C1 (amended): when the run finishes on well-formed records, the mapping's
\* keys are exactly the configured admin groups held by some collected user
\* (name not starting with "A", reached before the scan breaks), and each key
\* lists exactly those users, one entry per membership.
C1_MappingExactForCollectedUsers ==
    (Finished /\ \A i \in DOMAIN Directory : WellFormed(i)) =>
        /\ printed_groups = <<admin_groups>>
        /\ DOMAIN admin_groups =
               {g \in config.admingroups :
                   \E i \in DOMAIN Directory : Collected(i) /\ g \in GroupsOf(i)}
        /\ \A g \in DOMAIN admin_groups :
               /\ Range(admin_groups[g]) =
                      {NameOf(i) : i \in {j \in DOMAIN Directory :
                                             Collected(j) /\ g \in GroupsOf(j)}}
               /\ Len(admin_groups[g]) =
                      Cardinality({j \in DOMAIN Directory :
                                      Collected(j) /\ g \in GroupsOf(j)})

\* Two different users were collected into one group while a platform account
\* holding an admin group was in the directory.
C1_Witness ==
    /\ Finished
    /\ \A i \in DOMAIN Directory : WellFormed(i)
    /\ \E g \in DOMAIN admin_groups : Cardinality(Range(admin_groups[g])) >= 2
    /\ \E i \in DOMAIN Directory :
           PlatformNamed(i) /\ GroupsOf(i) \cap config.admingroups # {}

\* C2: in every state, every key of the mapping is a configured admin group
\* and maps to a non-empty list.
C2_KeysAreAdminGroups ==
    \A g \in DOMAIN admin_groups :
        /\ g \in config.admingroups
        /\ Len(admin_groups[g]) > 0

\* Mid-scan, the mapping has a key and a user holding a group outside the
\* configured set has been processed.
C2_Witness ==
    /\ pc = "scan"
    /\ DOMAIN admin_groups # {}
    /\ \E j \in 1..(idx - 1) :
           Counted(j) /\ \E g \in GroupsOf(j) : g \notin config.admingroups

\* C3 (as stated): when more users than the cap can be checked, the run ends
\* normally having checked exactly the cap's number of users.
C3_StopsAtCap ==
    (pc = "done" /\ az_users.parses
        /\ Cardinality({i \in DOMAIN Directory : Counted(i)}) > UserCheckCap) =>
        checked_out = UserCheckCap

\* C4 (as stated): when the configuration file is missing, is not JSON, or has
\* no admingroups key, no external command is ever issued.
C4_BadConfigIssuesNoCommand ==
    (\/ config_file \in {"missing", "not_json"}
     \/ config_file = "json" /\ ~HasAdminGroups(config)) =>
        az_calls = <<>>

\* C5: the session check is issued at most once and is the first command;
\* once the scan is under way it has been issued exactly once; every other
\* command comes after it and after a standard error without the no-session
\* text; with the no-session text the process has exited and nothing else
\* was issued.
C5_SessionGate ==
    /\ Cardinality({i \in DOMAIN az_calls : az_calls[i] = SessionCmd}) <= 1
    /\ \A i \in DOMAIN az_calls :
           az_calls[i] # SessionCmd =>
               /\ i > 1
               /\ az_calls[1] = SessionCmd
               /\ ~NoSession(session_std_err)
    /\ (az_calls # <<>> /\ NoSession(session_std_err)) =>
           (pc = "exited" /\ az_calls = <<SessionCmd>>)
    /\ pc \in {"list_users", "print_found", "scan", "dump", "done"} =>
           Cardinality({i \in DOMAIN az_calls : az_calls[i] = SessionCmd}) = 1

\* The session check met the no-session text and the process exited.
C5_Witness ==
    /\ pc = "exited"
    /\ az_calls = <<SessionCmd>>
    /\ NoSession(session_std_err)

\* The replacement word of a character, or the character itself.
Substitute(ch) ==
    IF ch \in MetaChars
    THEN (CHOOSE k \in DOMAIN replace_map : replace_map[k].from = ch)
    ELSE 0

RECURSIVE Substituted(_)
Substituted(s) ==
    IF s = <<>> THEN <<>>
    ELSE (IF Substitute(Head(s)) = 0 THEN <<Head(s)>>
          ELSE replace_map[Substitute(Head(s))].to) \o Substituted(Tail(s))

\* C6: after ex_az_command(c), a subprocess was started only when c with each
\* of the six characters replaced by its word begins with "az"; the command
\* started is that replaced form and holds none of the six characters;
\* otherwise the process exited and nothing was started.
C6_SanitizedPrefixCheck ==
    pc # "ex_az_command" =>
        IF startswith(Substituted(c), AzProgram)
        THEN /\ az_calls = <<Substituted(c)>>
             /\ \A i \in DOMAIN az_calls[1] : az_calls[1][i] \notin MetaChars
        ELSE /\ az_calls = <<>>
             /\ pc = "exited"

\* A command with two of the characters in it was sanitized and started.
C6_Witness ==
    /\ pc = "returned"
    /\ Cardinality({i \in DOMAIN c : c[i] \in MetaChars}) >= 2
    /\ Len(az_calls) = 1

\* C7 (as stated): with --report the run ends normally without a live check
\* and has reported bob removed from and carol added to GroupA.
C7_ReportModeReportsDelta ==
    (args.report /\ pc \notin {"get_args", "report"}) =>
        /\ pc = "done"
        /\ az_calls = <<>>
        /\ report_out = <<[group |-> "GroupA", removed |-> {"bob"}, added |-> {"carol"}]>>

\* C8: no group fetch is ever issued for a user whose name starts with "A" and
\* such a user is in no member list; during and after the scan the counter
\* counts only the other users passed so far (those whose group list parsed),
\* and a fetch was issued for every other user passed so far.
C8_PlatformAccountsSkipped ==
    /\ \A i \in DOMAIN users :
           (Len(users[i]) > 0 /\ users[i][1] = "A") =>
               /\ GetMemberGroupsPrefix \o users[i] \notin Range(az_calls)
               /\ \A g \in DOMAIN admin_groups : users[i] \notin Range(admin_groups[g])
    /\ pc \in {"scan", "dump", "done"} =>
           /\ user_check_count = CountedBefore(idx)
           /\ FetchesIssued = Cardinality({j \in 1..(idx - 1) : ~PlatformNamed(j)})

\* A platform account was passed over and a later user was collected.
C8_Witness ==
    /\ pc = "done"
    /\ \E i \in DOMAIN Directory, j \in DOMAIN Directory :
           /\ i < j
           /\ PlatformNamed(i)
           /\ Collected(j)
           /\ \E g \in DOMAIN admin_groups : NameOf(j) \in Range(admin_groups[g])

\* C9 (as stated): when the user list does not parse, the run goes on to
\* the report and ends normally with zero users found, zero checked and an
\* empty mapping.
C9_UnparsableUserListContinues ==
    (UserListCmd \in Range(az_calls) /\ ~az_users.parses
        /\ pc \notin {"list_users", "exited"}) =>
        /\ pc \in {"print_found", "scan", "dump", "done"}
        /\ pc = "done" =>
               (found_out = 0 /\ checked_out = 0 /\ printed_groups = <<EmptyMapping>>)

\* C10: a step over a user whose group list does not parse (the process not
\* exiting) leaves the mapping and the counter as they were and moves to the
\* next user with the scan still running; and at the end every collected user
\* (the unparsable ones not counting towards the cap) is listed under each
\* configured admin group it holds.
C10_UnparsableUserSkipped ==
    /\ [][(AtUser /\ ~PlatformNamed(idx) /\ ~WellFormed(idx) /\ pc' # "exited") =>
            /\ admin_groups' = admin_groups
            /\ user_check_count' = user_check_count
            /\ idx' = idx + 1
            /\ pc' = "scan"]_vars
    /\ [](Finished =>
            \A i \in DOMAIN Directory :
                Collected(i) =>
                    \A g \in GroupsOf(i) \cap config.admingroups :
                        /\ g \in DOMAIN admin_groups
                        /\ NameOf(i) \in Range(admin_groups[g]))

\* A user with an unparsable group list was passed and a later user was
\* collected into a group.
C10_Witness ==
    /\ pc = "done"
    /\ HasAdminGroups(config)
    /\ \E i \in DOMAIN Directory, j \in DOMAIN Directory :
           /\ i < j
           /\ ~PlatformNamed(i) /\ ~WellFormed(i)
           /\ Collected(j)
           /\ \E g \in DOMAIN admin_groups : NameOf(j) \in Range(admin_groups[g])

====
